---- MODULE Spec2Model ----
(***************************************************************************)
(* The document compliance service: the upload / check / correct / status  *)
(* handlers of main.py, the two background workflows of agents.py and the  *)
(* paragraph chunker.  Text is a string, that is a sequence of characters.  *)
(***************************************************************************)
EXTENDS Integers, Sequences, FiniteSets, Bags, TLC

VARIABLES
    file_storage,   \* agents.file_storage: file_id -> job record
    disk,           \* temp_uploads/: file path -> the uploaded document
    output_files,   \* output/: the paths doc.save has written
    tasks,          \* bag of the background tasks added and not yet returned
    response,       \* the HTTP response of the step just taken, if a handler ran
    escaped,        \* exceptions that left a background task uncaught
    split_call      \* one call of paragraph_chunk_split: arguments and result

vars == <<file_storage, disk, output_files, tasks, response, escaped, split_call>>

-----------------------------------------------------------------------------
(* Bounds of the model *)

\* background tasks that may be scheduled and not yet returned at one time
MaxTasks == 2
\* longest text handed to the chunker in SpecChunker
MaxLen == 6
\* largest chunk_size handed to the chunker in SpecChunker
MaxSize == 6

-----------------------------------------------------------------------------
(* Text *)

NL == "\n"
SEP == "\n\n"

IsSpace(c) == c \in {" ", NL, "\t", "\r"}

\* c * n
RECURSIVE Rep(_, _)
Rep(c, n) ==
    IF n = 0 THEN ""
    ELSE IF n % 2 = 1 THEN c \o Rep(c, n - 1)
    ELSE LET half == Rep(c, n \div 2) IN half \o half

RECURSIVE LStrip(_)
LStrip(s) == IF s # "" /\ IsSpace(Head(s)) THEN LStrip(Tail(s)) ELSE s

RECURSIVE RStrip(_)
RStrip(s) ==
    IF s # "" /\ IsSpace(SubSeq(s, Len(s), Len(s)))
    THEN RStrip(SubSeq(s, 1, Len(s) - 1)) ELSE s

\* str.strip()
Strip(s) == RStrip(LStrip(s))

SetMin(S) == CHOOSE x \in S : \A y \in S : x <= y

\* index of the first occurrence of sep in s at or after from, 0 when none
Find(s, sep, from) ==
    LET hits == {i \in from..(Len(s) - Len(sep) + 1) :
                    SubSeq(s, i, i + Len(sep) - 1) = sep}
    IN  IF hits = {} THEN 0 ELSE SetMin(hits)

\* str.split(sep) on the rest of s starting at from
RECURSIVE SplitFrom(_, _, _)
SplitFrom(s, sep, from) ==
    LET k == Find(s, sep, from)
    IN  IF k = 0
        THEN <<SubSeq(s, from, Len(s))>>
        ELSE <<SubSeq(s, from, k - 1)>> \o SplitFrom(s, sep, k + Len(sep))

\* str.split(sep)
Split(s, sep) == SplitFrom(s, sep, 1)

\* sep.join(parts)
RECURSIVE Join(_, _)
Join(parts, sep) ==
    IF parts = <<>> THEN ""
    ELSE IF Len(parts) = 1 THEN parts[1]
    ELSE parts[1] \o sep \o Join(Tail(parts), sep)

\* str.endswith(suffix)
EndsWith(s, suffix) ==
    /\ Len(s) >= Len(suffix)
    /\ SubSeq(s, Len(s) - Len(suffix) + 1, Len(s)) = suffix

-----------------------------------------------------------------------------
(* The chunker *)

RECURSIVE ChunkLoop_IgnoresParagraphLength(_, _, _, _, _)
ChunkLoop_IgnoresParagraphLength(paragraphs, i, chunks, current_chunk, chunk_size) ==
    IF i > Len(paragraphs)
    THEN IF current_chunk # "" THEN Append(chunks, Strip(current_chunk)) ELSE chunks
    ELSE
        LET para_with_newline == Strip(paragraphs[i]) \o SEP
        IN  IF Len(current_chunk) > chunk_size
            THEN ChunkLoop_IgnoresParagraphLength(paragraphs, i + 1,
                           IF current_chunk # ""
                           THEN Append(chunks, Strip(current_chunk)) ELSE chunks,
                           para_with_newline, chunk_size)
            ELSE ChunkLoop_IgnoresParagraphLength(paragraphs, i + 1, chunks,
                           current_chunk \o para_with_newline, chunk_size)

\* the for loop of paragraph_chunk_split from paragraph i on
RECURSIVE ChunkLoop(_, _, _, _, _)
ChunkLoop(paragraphs, i, chunks, current_chunk, chunk_size) ==
    IF i > Len(paragraphs)
    THEN IF current_chunk # "" THEN Append(chunks, Strip(current_chunk)) ELSE chunks
    ELSE
        LET para_with_newline == Strip(paragraphs[i]) \o SEP
        IN  IF Len(current_chunk) + Len(para_with_newline) > chunk_size
            THEN ChunkLoop(paragraphs, i + 1,
                           IF current_chunk # ""
                           THEN Append(chunks, Strip(current_chunk)) ELSE chunks,
                           para_with_newline, chunk_size)
            ELSE ChunkLoop(paragraphs, i + 1, chunks,
                           current_chunk \o para_with_newline, chunk_size)

RECURSIVE ChunkLoop_NoFinalFlush(_, _, _, _, _)
ChunkLoop_NoFinalFlush(paragraphs, i, chunks, current_chunk, chunk_size) ==
    IF i > Len(paragraphs)
    THEN chunks
    ELSE
        LET para_with_newline == Strip(paragraphs[i]) \o SEP
        IN  IF Len(current_chunk) + Len(para_with_newline) > chunk_size
            THEN ChunkLoop_NoFinalFlush(paragraphs, i + 1,
                           IF current_chunk # ""
                           THEN Append(chunks, Strip(current_chunk)) ELSE chunks,
                           para_with_newline, chunk_size)
            ELSE ChunkLoop_NoFinalFlush(paragraphs, i + 1, chunks,
                           current_chunk \o para_with_newline, chunk_size)

paragraph_chunk_split_NoFinalFlush(text, chunk_size) ==
    ChunkLoop_NoFinalFlush(Split(text, SEP), 1, <<>>, "", chunk_size)

paragraph_chunk_split(text, chunk_size) ==
    ChunkLoop(Split(text, SEP), 1, <<>>, "", chunk_size)


-----------------------------------------------------------------------------
(* Paths, uploaded documents and the external services *)

Ext_pdf == ".pdf"
Ext_docx == ".docx"
TempDir == "temp_uploads"
OutputDir == "output"

\* the values uuid4 returns
FileIds == {"uuid-1"}

\* the files a client may upload: a name and the document inside
Uploads ==
    { [filename |-> "a.v2.pdf", doc |-> "three_pages"],
      [filename |-> "b.docx", doc |-> "one_page"],
      [filename |-> "c.pdf", doc |-> "corrupt"],
      [filename |-> "d.txt", doc |-> "one_page"] }

\* whether the document loader can read the document
Readable(doc) == doc # "corrupt"

\* page_content of the Documents the loader returns for a readable document
\* a PDF of three pages, the second one close to chunk_size long
ThreePages == <<"a", Rep("b", 1998), " c\n">>

\* a document of one page with two paragraphs
OnePage == <<" x\n\n\ny ">>

PageContents(doc) == IF doc = "three_pages" THEN ThreePages ELSE OnePage

\* os.path.join(a, b)
PathJoin(a, b) == a \o "/" \o b

\* os.path.basename(p)
RECURSIVE Basename(_)
Basename(p) ==
    LET k == Find(p, "/", 1)
    IN  IF k = 0 THEN p ELSE Basename(SubSeq(p, k + 1, Len(p)))

\* the contents llm.ainvoke may return for the compliance prompt on chunk
\* (a deterministic text service)
CheckResponses(chunk) == { "{report:" \o chunk \o "}" }

\* the contents llm.ainvoke may return for the correction prompt on chunk
CorrectResponses(chunk) ==
    { "+" \o chunk,
      " +" \o chunk \o "\n" }

\* the exceptions the external calls raise
LoaderError == [type |-> "Exception", msg |-> "loader failed"]
UnsupportedError == [type |-> "ValueError", msg |-> "Only PDF and DOCX supported."]
ServiceError == [type |-> "Exception", msg |-> "service error"]
SaveError == [type |-> "OSError", msg |-> "cannot save"]
NoStateError == [type |-> "TypeError", msg |-> "state is None"]

\* the classes `except Exception` catches
ExceptionClasses == {"Exception", "ValueError", "OSError", "TypeError"}

-----------------------------------------------------------------------------
(* Job records, workflow state, tasks *)

\* an error field holding None; <<msg>> when it holds a message
None == <<>>

\* file_info["state"] = None
NoState == [none |-> TRUE]

ComplianceState(file_path) ==
    [ file_path |-> file_path,
      original_text |-> "",
      chunks |-> <<>>,
      compliance_reports |-> <<>>,
      corrected_chunks |-> <<>>,
      final_corrected_doc |-> "",
      output_path |-> "" ]

\* the record upload_file puts into file_storage
NewFileInfo(file_path, filename) ==
    [ file_path |-> file_path,
      original_filename |-> filename,
      status |-> "uploaded",
      compliance_reports |-> <<>>,
      chunks |-> <<>>,
      original_text |-> "",
      corrected_chunks |-> <<>>,
      final_corrected_doc |-> "",
      output_path |-> "",
      state |-> NoState,
      error |-> None ]

\* a background task as add_task records it: the function and its arguments;
\* pc is where the task stands, state and acc are its local variables
NewTask(fn, file_id, file_path) ==
    [ fn |-> fn, file_id |-> file_id, file_path |-> file_path,
      pc |-> "scheduled", state |-> NoState, acc |-> <<>> ]

\* BackgroundTasks.add_task
add_task(task) == tasks (+) SetToBag({task})

\* task moves on as next
Step(task, next) == (tasks (-) SetToBag({task})) (+) SetToBag({next})

\* task returns
Return(task) == tasks (-) SetToBag({task})

Reply(op, file_id, code, status, message, reports) ==
    [ op |-> op, file_id |-> file_id, status_code |-> code,
      status |-> status, message |-> message, compliance_reports |-> reports ]

NoResponse == Reply("none", "", 0, "", <<>>, <<>>)

NoCall == [text |-> "", chunk_size |-> 0, done |-> FALSE, result |-> <<>>]

-----------------------------------------------------------------------------
(* The HTTP handlers of main.py.  No handler awaits, so each runs as one    *)
(* step of the event loop.                                                 *)

\* chunk_size passed by chunk_text_node
ChunkSize == 2000

SupportedName(filename) ==
    EndsWith(filename, Ext_pdf) \/ EndsWith(filename, Ext_docx)

upload_file(file) ==
    /\ IF ~SupportedName(file.filename)
       THEN /\ response' = Reply("upload", "", 400, "", <<>>, <<>>)
            /\ UNCHANGED <<file_storage, disk>>
       ELSE \E file_id \in FileIds \ DOMAIN file_storage :
              LET file_path == PathJoin(TempDir, file_id \o "_" \o file.filename)
              IN  /\ disk' = [p \in DOMAIN disk \cup {file_path} |->
                                 IF p = file_path THEN file.doc ELSE disk[p]]
                  /\ file_storage' =
                         [id \in DOMAIN file_storage \cup {file_id} |->
                             IF id = file_id
                             THEN NewFileInfo(file_path, file.filename)
                             ELSE file_storage[id]]
                  /\ response' = Reply("upload", file_id, 200, "", <<>>, <<>>)
    /\ UNCHANGED <<output_files, tasks, escaped, split_call>>

CheckAllowed_WhileProcessing(status) ==
    status \in {"uploaded", "compliance_complete", "processing_compliance"}

\* the statuses from which check_compliance schedules a run
CheckAllowed(status) == status \in {"uploaded", "compliance_complete"}

check_compliance(file_id) ==
    /\ (file_id \in DOMAIN file_storage /\ CheckAllowed(file_storage[file_id].status))
           => BagCardinality(tasks) < MaxTasks
    /\ IF file_id \notin DOMAIN file_storage
       THEN /\ response' = Reply("check_compliance", file_id, 404, "", <<>>, <<>>)
            /\ UNCHANGED tasks
       ELSE LET file_info == file_storage[file_id]
            IN  IF ~CheckAllowed(file_info.status)
                THEN /\ response' =
                            Reply("check_compliance", file_id, 400, "", <<>>, <<>>)
                     /\ UNCHANGED tasks
                ELSE /\ tasks' = add_task(NewTask("process_compliance_check",
                                                  file_id, file_info.file_path))
                     /\ response' =
                            Reply("check_compliance", file_id, 200, "", <<>>, <<>>)
    /\ UNCHANGED <<file_storage, disk, output_files, escaped, split_call>>

CorrectAllowed_AnyComplete(status) ==
    status \in {"compliance_complete", "correction_complete"}

\* the statuses from which correct_document schedules a run
CorrectAllowed(status) == status = "compliance_complete"

correct_document(file_id) ==
    /\ (file_id \in DOMAIN file_storage /\ CorrectAllowed(file_storage[file_id].status))
           => BagCardinality(tasks) < MaxTasks
    /\ IF file_id \notin DOMAIN file_storage
       THEN /\ response' = Reply("correct_document", file_id, 404, "", <<>>, <<>>)
            /\ UNCHANGED tasks
       ELSE LET file_info == file_storage[file_id]
            IN  IF ~CorrectAllowed(file_info.status)
                THEN /\ response' =
                            Reply("correct_document", file_id, 400, "", <<>>, <<>>)
                     /\ UNCHANGED tasks
                ELSE /\ tasks' = add_task(NewTask("process_document_correction",
                                                  file_id, ""))
                     /\ response' =
                            Reply("correct_document", file_id, 200, "", <<>>, <<>>)
    /\ UNCHANGED <<file_storage, disk, output_files, escaped, split_call>>

\* the message get_status puts into its response
StatusMessage(file_info) ==
    IF file_info.error # None /\ file_info.error[1] # ""
    THEN <<"Error: ", file_info.error[1]>>
    ELSE IF file_info.status = "uploaded"
    THEN <<"File uploaded, ready for compliance checking">>
    ELSE IF file_info.status = "processing_compliance"
    THEN <<"Compliance checking in progress...">>
    ELSE IF file_info.status = "compliance_complete"
    THEN <<"Compliance checking complete, ready for correction">>
    ELSE IF file_info.status = "processing_correction"
    THEN <<"Document correction in progress...">>
    ELSE IF file_info.status = "correction_complete"
    THEN <<"Document correction complete, ready for download">>
    ELSE None

get_status(file_id) ==
    /\ IF file_id \notin DOMAIN file_storage
       THEN response' = Reply("get_status", file_id, 404, "", <<>>, <<>>)
       ELSE LET file_info == file_storage[file_id]
            IN  response' = Reply("get_status", file_id, 200, file_info.status,
                                  StatusMessage(file_info),
                                  file_info.compliance_reports)
    /\ UNCHANGED <<file_storage, disk, output_files, tasks, escaped, split_call>>

-----------------------------------------------------------------------------
(* The background tasks of agents.py.  A task runs from one await that      *)
(* yields to the event loop to the next as one step.                        *)

At(task, fn, pc) == BagIn(task, tasks) /\ task.fn = fn /\ task.pc = pc

SetStatus(file_id, status) ==
    [file_storage EXCEPT ![file_id].status = status]

Caught_ValueErrorOnly(e) == e.type = "ValueError"

\* whether the except clause of the task functions catches e
Caught(e) == e.type \in ExceptionClasses

except_handler_KeepsPartial(file_info, task, e) ==
    [file_info EXCEPT !.status = "error", !.error = <<e.msg>>,
                      !.chunks = task.state.chunks,
                      !.compliance_reports = task.acc]

\* the except clause: what it makes of the job record
except_handler(file_info, task, e) ==
    [file_info EXCEPT !.status = "error", !.error = <<e.msg>>]

\* exception e raised inside the try block of task
Raise(task, e) ==
    /\ IF Caught(e)
       THEN /\ file_storage' =
                   [file_storage EXCEPT
                       ![task.file_id] = except_handler(@, task, e)]
            /\ UNCHANGED escaped
       ELSE /\ escaped' = escaped \cup {e}
            /\ UNCHANGED file_storage
    /\ tasks' = Return(task)

\* process_compliance_check up to the first node of the workflow
begin_compliance_check(task) ==
    /\ At(task, "process_compliance_check", "scheduled")
    /\ file_storage' = SetStatus(task.file_id, "processing_compliance")
    /\ tasks' = Step(task, [task EXCEPT !.state = ComplianceState(task.file_path),
                                        !.pc = "load"])
    /\ response' = NoResponse
    /\ UNCHANGED <<disk, output_files, escaped, split_call>>

load_document_node(task) ==
    /\ At(task, "process_compliance_check", "load")
    /\ LET file_path == task.state.file_path
       IN  IF ~SupportedName(file_path)
           THEN Raise(task, UnsupportedError)
           ELSE IF ~Readable(disk[file_path])
           THEN Raise(task, LoaderError)
           ELSE /\ tasks' = Step(task, [task EXCEPT
                       !.state.original_text =
                           Join(PageContents(disk[file_path]), SEP),
                       !.pc = "chunk"])
                /\ UNCHANGED <<file_storage, escaped>>
    /\ response' = NoResponse
    /\ UNCHANGED <<disk, output_files, split_call>>

\* the texts load_document_node produces
DocumentTexts == {Join(PageContents(doc), SEP) : doc \in {"three_pages", "one_page"}}

\* paragraph_chunk_split(text, chunk_size=2000) of chunk_text_node on each
\* of them
DocumentChunks ==
    [text \in DocumentTexts |-> paragraph_chunk_split(text, ChunkSize)]

\* chunk_text_node stores chunks; with no chunk the loop of
\* compliance_check_node has nothing to send
chunk_text_node(task) ==
    /\ At(task, "process_compliance_check", "chunk")
    /\ LET chunks == DocumentChunks[task.state.original_text]
       IN  tasks' = Step(task, [task EXCEPT
               !.state.chunks = chunks,
               !.acc = <<>>,
               !.pc = IF chunks = <<>> THEN "store" ELSE "check"])
    /\ response' = NoResponse
    /\ UNCHANGED <<file_storage, disk, output_files, escaped, split_call>>

NextChunk_Repeats(state, acc) == state.chunks[1]

NextChunk_FromTheEnd(state, acc) ==
    state.chunks[Len(state.chunks) - Len(acc)]

\* the chunk the loops of compliance_check_node and correct_document_node
\* send next, acc holding the results so far
NextChunk(state, acc) == state.chunks[Len(acc) + 1]

\* one llm.ainvoke of compliance_check_node returns: the report is appended,
\* and after the last chunk the reports go into the state
compliance_check_node(task) ==
    /\ At(task, "process_compliance_check", "check")
    /\ \E content \in CheckResponses(NextChunk(task.state, task.acc)) :
          LET reports == Append(task.acc, content)
          IN  IF Len(reports) < Len(task.state.chunks)
              THEN tasks' = Step(task, [task EXCEPT !.acc = reports])
              ELSE tasks' = Step(task, [task EXCEPT
                       !.acc = <<>>,
                       !.state.compliance_reports = reports,
                       !.pc = "store"])
    /\ response' = NoResponse
    /\ UNCHANGED <<file_storage, disk, output_files, escaped, split_call>>

\* one llm.ainvoke of compliance_check_node raises
compliance_check_fails(task) ==
    /\ At(task, "process_compliance_check", "check")
    /\ Raise(task, ServiceError)
    /\ response' = NoResponse
    /\ UNCHANGED <<disk, output_files, split_call>>

StoreCompliance_Appends(file_info, state) ==
    [file_info EXCEPT !.compliance_reports = @ \o state.compliance_reports,
                      !.chunks = @ \o state.chunks,
                      !.original_text = state.original_text,
                      !.state = state,
                      !.status = "compliance_complete"]

StoreCompliance_StatusFirst(file_info, state) ==
    [file_info EXCEPT !.status = "compliance_complete"]

\* "Store results" of process_compliance_check
StoreCompliance(file_info, state) ==
    [file_info EXCEPT !.compliance_reports = state.compliance_reports,
                      !.chunks = state.chunks,
                      !.original_text = state.original_text,
                      !.state = state,
                      !.status = "compliance_complete"]

store_compliance(task) ==
    /\ At(task, "process_compliance_check", "store")
    /\ file_storage' = [file_storage EXCEPT
           ![task.file_id] = StoreCompliance(@, task.state)]
    /\ tasks' = Return(task)
    /\ response' = NoResponse
    /\ UNCHANGED <<disk, output_files, escaped, split_call>>

\* process_document_correction up to the first node of the workflow
begin_document_correction(task) ==
    /\ At(task, "process_document_correction", "scheduled")
    /\ LET state == file_storage[task.file_id].state
       IN  IF state = NoState
           THEN Raise(task, NoStateError)
           ELSE /\ file_storage' = SetStatus(task.file_id, "processing_correction")
                /\ tasks' = Step(task, [task EXCEPT
                       !.state = state,
                       !.acc = <<>>,
                       !.pc = IF state.chunks = <<>> THEN "save" ELSE "correct"])
                /\ UNCHANGED escaped
    /\ response' = NoResponse
    /\ UNCHANGED <<disk, output_files, split_call>>

\* one llm.ainvoke of correct_document_node returns: the stripped content is
\* appended, and after the last chunk the state gets corrected_chunks and
\* final_corrected_doc
correct_document_node(task) ==
    /\ At(task, "process_document_correction", "correct")
    /\ \E content \in CorrectResponses(NextChunk(task.state, task.acc)) :
          LET corrected_chunks == Append(task.acc, Strip(content))
          IN  IF Len(corrected_chunks) < Len(task.state.chunks)
              THEN tasks' = Step(task, [task EXCEPT !.acc = corrected_chunks])
              ELSE tasks' = Step(task, [task EXCEPT
                       !.acc = <<>>,
                       !.state.corrected_chunks = corrected_chunks,
                       !.state.final_corrected_doc = Join(corrected_chunks, SEP),
                       !.pc = "save"])
    /\ response' = NoResponse
    /\ UNCHANGED <<file_storage, disk, output_files, escaped, split_call>>

\* one llm.ainvoke of correct_document_node raises
correct_document_fails(task) ==
    /\ At(task, "process_document_correction", "correct")
    /\ Raise(task, ServiceError)
    /\ response' = NoResponse
    /\ UNCHANGED <<disk, output_files, split_call>>

\* the output path save_corrected_doc_node derives from file_path
\* f"corrected_{base_name.split('.')[0]}.docx"
OutputName(base_name) == "corrected_" \o Split(base_name, ".")[1] \o Ext_docx

\* the path save_corrected_doc_node writes to, base_name being computed
\* once
OutputPath(file_path) ==
    CHOOSE output_path \in {PathJoin(OutputDir, OutputName(base_name)) :
                               base_name \in {Basename(file_path)}} : TRUE

save_corrected_doc_node(task) ==
    /\ At(task, "process_document_correction", "save")
    /\ LET output_path == OutputPath(task.state.file_path)
       IN  /\ output_files' = output_files \cup {output_path}
           /\ tasks' = Step(task, [task EXCEPT !.state.output_path = output_path,
                                               !.pc = "store"])
    /\ response' = NoResponse
    /\ UNCHANGED <<file_storage, disk, escaped, split_call>>

\* doc.save raises
save_corrected_doc_fails(task) ==
    /\ At(task, "process_document_correction", "save")
    /\ Raise(task, SaveError)
    /\ response' = NoResponse
    /\ UNCHANGED <<disk, output_files, split_call>>

StoreCorrection_Rechunks(file_info, state) ==
    [file_info EXCEPT !.corrected_chunks = state.corrected_chunks,
                      !.final_corrected_doc = state.final_corrected_doc,
                      !.output_path = state.output_path,
                      !.chunks = paragraph_chunk_split(state.final_corrected_doc,
                                                       ChunkSize),
                      !.state = state,
                      !.status = "correction_complete"]

StoreCorrection_NoOutputPath(file_info, state) ==
    [file_info EXCEPT !.corrected_chunks = state.corrected_chunks,
                      !.final_corrected_doc = state.final_corrected_doc,
                      !.state = state,
                      !.status = "correction_complete"]

\* "Store results" of process_document_correction
StoreCorrection(file_info, state) ==
    [file_info EXCEPT !.corrected_chunks = state.corrected_chunks,
                      !.final_corrected_doc = state.final_corrected_doc,
                      !.output_path = state.output_path,
                      !.state = state,
                      !.status = "correction_complete"]

store_correction(task) ==
    /\ At(task, "process_document_correction", "store")
    /\ file_storage' = [file_storage EXCEPT
           ![task.file_id] = StoreCorrection(@, task.state)]
    /\ tasks' = Return(task)
    /\ response' = NoResponse
    /\ UNCHANGED <<disk, output_files, escaped, split_call>>

-----------------------------------------------------------------------------
(* The service *)

Init ==
    /\ file_storage = [id \in {} |-> NoState]
    /\ disk = [p \in {} |-> ""]
    /\ output_files = {}
    /\ tasks = EmptyBag
    /\ response = NoResponse
    /\ escaped = {}
    /\ split_call = NoCall

Next ==
    \/ \E file \in Uploads : upload_file(file)
    \/ \E file_id \in FileIds : check_compliance(file_id)
    \/ \E file_id \in FileIds : correct_document(file_id)
    \/ \E file_id \in FileIds : get_status(file_id)
    \/ \E task \in BagToSet(tasks) : begin_compliance_check(task)
    \/ \E task \in BagToSet(tasks) : load_document_node(task)
    \/ \E task \in BagToSet(tasks) : chunk_text_node(task)
    \/ \E task \in BagToSet(tasks) : compliance_check_node(task)
    \/ \E task \in BagToSet(tasks) : compliance_check_fails(task)
    \/ \E task \in BagToSet(tasks) : store_compliance(task)
    \/ \E task \in BagToSet(tasks) : begin_document_correction(task)
    \/ \E task \in BagToSet(tasks) : correct_document_node(task)
    \/ \E task \in BagToSet(tasks) : correct_document_fails(task)
    \/ \E task \in BagToSet(tasks) : save_corrected_doc_node(task)
    \/ \E task \in BagToSet(tasks) : save_corrected_doc_fails(task)
    \/ \E task \in BagToSet(tasks) : store_correction(task)

Spec == Init /\ [][Next]_vars

\* a step of some background task: the event loop running a task function
\* up to its next await
BackgroundStep ==
    \E task \in BagToSet(tasks) :
        \/ begin_compliance_check(task)
        \/ load_document_node(task)
        \/ chunk_text_node(task)
        \/ compliance_check_node(task)
        \/ compliance_check_fails(task)
        \/ store_compliance(task)
        \/ begin_document_correction(task)
        \/ correct_document_node(task)
        \/ correct_document_fails(task)
        \/ save_corrected_doc_node(task)
        \/ save_corrected_doc_fails(task)
        \/ store_correction(task)

\* the event loop runs a scheduled task once the response is sent, and every
\* awaited call returns or raises: background work is not postponed forever
Fairness == WF_vars(BackgroundStep)

SpecLive == Init /\ [][Next]_vars /\ Fairness

-----------------------------------------------------------------------------
(* The chunker alone: one call on a short text *)

Alphabet == {"a", " ", NL}

\* the texts of length n over Alphabet
RECURSIVE TextsOfLen(_)
TextsOfLen(n) ==
    IF n = 0 THEN {""}
    ELSE {s \o c : s \in TextsOfLen(n - 1), c \in Alphabet}

Texts == UNION {TextsOfLen(n) : n \in 0..MaxLen}

InitChunker ==
    /\ file_storage = [id \in {} |-> NoState]
    /\ disk = [p \in {} |-> ""]
    /\ output_files = {}
    /\ tasks = EmptyBag
    /\ response = NoResponse
    /\ escaped = {}
    /\ \E text \in Texts, chunk_size \in 0..MaxSize :
          split_call = [text |-> text, chunk_size |-> chunk_size,
                        done |-> FALSE, result |-> <<>>]

call_paragraph_chunk_split ==
    /\ ~split_call.done
    /\ split_call' = [split_call EXCEPT
           !.result = paragraph_chunk_split(split_call.text, split_call.chunk_size),
           !.done = TRUE]
    /\ UNCHANGED <<file_storage, disk, output_files, tasks, response, escaped>>

NextChunker == call_paragraph_chunk_split

SpecChunker == InitChunker /\ [][NextChunker]_vars

-----------------------------------------------------------------------------
(* Properties *)

Jobs == DOMAIN file_storage

\* the step just taken was handler op answering code for job file_id
Answered(op, file_id, code) ==
    /\ response'.op = op
    /\ response'.file_id = file_id
    /\ response'.status_code = code

\* the step is handler op on job file_id
Handled(op, file_id) ==
    /\ response'.op = op
    /\ response'.file_id = file_id

\* the step is task leaving the try block of its function by an exception
Fails(task) ==
    /\ BagIn(task, tasks)
    /\ task.pc \in {"load", "check", "correct", "save"}
    /\ tasks' = Return(task)

\* the message of the exception a failing node raises
FailureMessage(pc) ==
    IF pc = "load" THEN LoaderError.msg
    ELSE IF pc = "save" THEN SaveError.msg
    ELSE ServiceError.msg

\* C1: a Trigger-Correct on a job whose status is not CheckComplete is
\* answered 400, schedules no task and leaves the job record unchanged.
C1_CorrectOnlyFromCheckComplete ==
    [][\A id \in Jobs :
          (Handled("correct_document", id)
              /\ file_storage[id].status # "compliance_complete")
          => /\ response'.status_code = 400
             /\ tasks' = tasks
             /\ file_storage' = file_storage]_vars

C1_Witness ==
    /\ response.op = "correct_document"
    /\ response.status_code = 400
    /\ response.file_id \in Jobs
    /\ file_storage[response.file_id].status = "uploaded"

\* C2: a Trigger-Check is accepted, and schedules one Check task, exactly when
\* the job's status is Uploaded or CheckComplete; from every other status, the
\* two Processing statuses among them, it is answered 400 and schedules nothing.
C2_CheckExactlyFromUploadedOrComplete ==
    [][\A id \in Jobs :
          Handled("check_compliance", id)
          => IF file_storage[id].status \in {"uploaded", "compliance_complete"}
             THEN /\ response'.status_code = 200
                  /\ tasks' = tasks (+) SetToBag({NewTask("process_compliance_check",
                                                 id, file_storage[id].file_path)})
             ELSE /\ response'.status_code = 400
                  /\ tasks' = tasks]_vars

C2_Witness ==
    /\ response.op = "check_compliance"
    /\ response.status_code = 400
    /\ response.file_id \in Jobs
    /\ file_storage[response.file_id].status = "processing_compliance"

\* the number of tasks of function fn for job id that have begun to run
Running(fn, id) ==
    LET S == {task \in BagToSet(tasks) :
                 task.fn = fn /\ task.file_id = id /\ task.pc # "scheduled"}
    IN  BagCardinality([task \in S |-> tasks[task]])

\* C3: no job ever has two Check runs, or two Correct runs, in progress at
\* the same time.
C3_NoTwoRunsOfOneStage ==
    \A id \in Jobs :
        \A fn \in {"process_compliance_check", "process_document_correction"} :
            Running(fn, id) <= 1

\* the edges of the job status state machine
StatusEdges ==
    { <<"uploaded", "processing_compliance">>,
      <<"processing_compliance", "compliance_complete">>,
      <<"compliance_complete", "processing_correction">>,
      <<"processing_correction", "correction_complete">>,
      <<"processing_compliance", "error">>,
      <<"processing_correction", "error">>,
      <<"compliance_complete", "processing_compliance">>,
      <<"error", "processing_compliance">> }

\* C4: every change of a job's status follows an edge of the state machine.
C4_StatusFollowsEdges ==
    [][\A id \in Jobs :
          file_storage'[id].status # file_storage[id].status
          => <<file_storage[id].status, file_storage'[id].status>> \in StatusEdges]_vars

\* C5: a Trigger-Check on a job in Error is accepted and schedules a Check
\* task as it would from Uploaded.
C5_CheckAcceptedFromError ==
    [][\A id \in Jobs :
          (Handled("check_compliance", id) /\ file_storage[id].status = "error")
          => /\ response'.status_code = 200
             /\ tasks' = tasks (+) SetToBag({NewTask("process_compliance_check",
                                            id, file_storage[id].file_path)})]_vars

\* C6: when a trigger is accepted the job's status is the corresponding
\* Processing status as the triggering call returns.
C6_ProcessingWhenTriggerReturns ==
    [][\A id \in Jobs :
          /\ Answered("check_compliance", id, 200)
                => file_storage'[id].status = "processing_compliance"
          /\ Answered("correct_document", id, 200)
                => file_storage'[id].status = "processing_correction"]_vars

\* C7: a job in CorrectionComplete has as many reports and corrected chunks
\* as chunks, and report i and corrected chunk i are text service results
\* for chunk i of the stored chunks.
C7_Correspondence ==
    \A id \in Jobs :
        LET job == file_storage[id]
        IN  job.status = "correction_complete"
            => /\ Len(job.compliance_reports) = Len(job.chunks)
               /\ Len(job.corrected_chunks) = Len(job.chunks)
               /\ \A i \in 1..Len(job.chunks) :
                     /\ job.compliance_reports[i] \in CheckResponses(job.chunks[i])
                     /\ job.corrected_chunks[i] \in
                            {Strip(content) : content \in CorrectResponses(job.chunks[i])}

C7_Witness ==
    \E id \in Jobs :
        /\ file_storage[id].status = "correction_complete"
        /\ Len(file_storage[id].chunks) = 3
        /\ Len(file_storage[id].corrected_chunks) = 3

\* C8: when a node of a running stage raises, the task returns at once, the
\* job's status becomes Error, its error field holds the message, no later
\* node has written its output, and nothing leaves the task uncaught.
C8_FailureBecomesError ==
    [][\A task \in BagToSet(tasks) :
          Fails(task)
          => /\ file_storage'[task.file_id].status = "error"
             /\ file_storage'[task.file_id].error = <<FailureMessage(task.pc)>>
             /\ output_files' = output_files
             /\ escaped' = {}]_vars

C8_Witness ==
    \E id \in Jobs :
        /\ file_storage[id].status = "error"
        /\ file_storage[id].error = <<SaveError.msg>>
        /\ tasks = EmptyBag
        /\ escaped = {}

\* the step is a Check task failing in compliance_check_node
FailsInAnalyze(task) ==
    Fails(task) /\ task.fn = "process_compliance_check" /\ task.pc = "check"

C10_EmptyTextNoChunks ==
    (split_call.done /\ split_call.text = "") => split_call.result = <<>>

\* the paragraphs of text, each trimmed
TrimmedParagraphs(text) ==
    LET paragraphs == Split(text, SEP)
    IN  [k \in 1..Len(paragraphs) |-> Strip(paragraphs[k])]

NotEmpty(s) == s # ""

\* the paragraph content of text: its trimmed paragraphs that are not empty
ParagraphContent(text) == SelectSeq(TrimmedParagraphs(text), NotEmpty)

\* C11: a chunk longer than chunk_size is one trimmed paragraph of the text,
\* and every paragraph longer than chunk_size is a chunk of its own.
C11_OnlyWholeParagraphsExceed ==
    split_call.done
    => LET chunks == split_call.result
           paragraphs == TrimmedParagraphs(split_call.text)
       IN  /\ \A i \in 1..Len(chunks) :
                 Len(chunks[i]) > split_call.chunk_size
                 => \E k \in 1..Len(paragraphs) : chunks[i] = paragraphs[k]
           /\ \A k \in 1..Len(paragraphs) :
                 Len(paragraphs[k]) > split_call.chunk_size
                 => \E i \in 1..Len(chunks) : chunks[i] = paragraphs[k]

C11_Witness ==
    /\ split_call.done
    /\ Len(split_call.result) >= 2
    /\ \E i \in 1..Len(split_call.result) :
          Len(split_call.result[i]) > split_call.chunk_size

\* C12: the chunks joined with the paragraph delimiter and split again give
\* the paragraph content of the text: the same non-empty trimmed paragraphs
\* in the same order, each once.
C12_RoundTrip ==
    split_call.done
    => ParagraphContent(Join(split_call.result, SEP)) = ParagraphContent(split_call.text)

C12_Witness ==
    /\ split_call.done
    /\ Len(split_call.result) >= 2
    /\ Len(ParagraphContent(split_call.text)) >= 2
    /\ Len(Split(split_call.text, SEP)) > Len(ParagraphContent(split_call.text))

\* the step is one of task
StepOf(task) ==
    /\ BagIn(task, tasks)
    /\ CopiesIn(task, tasks') < CopiesIn(task, tasks)

\* the step is a Check task storing its results
StoresCompliance(task) ==
    /\ StepOf(task)
    /\ task.fn = "process_compliance_check"
    /\ task.pc = "store"

\* C13: a Check run that completes on a job holding the results of an
\* earlier Check run leaves chunks and reports equal to those results: it
\* overwrites them and appends nothing.
C13_RerunIdentical ==
    [][\A task \in BagToSet(tasks) :
          (StoresCompliance(task) /\ file_storage[task.file_id].state # NoState)
          => LET old == file_storage[task.file_id]
                 job == file_storage'[task.file_id]
             IN  /\ job.chunks = old.chunks
                 /\ job.compliance_reports = old.compliance_reports
                 /\ job.status = "compliance_complete"]_vars

\* a Check run has stored after a Correct run had: the status is back at
\* compliance_complete with corrected chunks in the job
C13_Witness ==
    \E id \in Jobs :
        /\ file_storage[id].status = "compliance_complete"
        /\ file_storage[id].corrected_chunks # <<>>
        /\ Len(file_storage[id].chunks) = 3
        /\ Len(file_storage[id].compliance_reports) = 3

ProcessingStatuses == {"processing_compliance", "processing_correction"}

SettledStatuses == {"compliance_complete", "correction_complete", "error"}

\* C14: with background tasks run fairly and every external call returning
\* or failing, a job in a processing status eventually has the status
\* compliance_complete, correction_complete or error.
C14_ProcessingEnds ==
    \A id \in FileIds :
        (id \in Jobs /\ file_storage[id].status \in ProcessingStatuses)
        ~> (id \in Jobs /\ file_storage[id].status \in SettledStatuses)

\* both stages have run to completion and no task is left
C14_Witness ==
    /\ tasks = EmptyBag
    /\ \E id \in Jobs :
          /\ file_storage[id].status = "correction_complete"
          /\ file_storage[id].error = None

\* reports are the text service results for chunks, one per chunk in order
ReportsOf(reports, chunks) ==
    /\ Len(reports) = Len(chunks)
    /\ \A i \in 1..Len(chunks) : reports[i] \in CheckResponses(chunks[i])

\* C15: a status poll that reads compliance_complete returns the complete
\* reports of the Check run whose chunks and workflow state the job holds.
C15_NoTornRead ==
    [][\A id \in Jobs :
          (Answered("get_status", id, 200)
              /\ response'.status = "compliance_complete")
          => LET job == file_storage'[id]
             IN  /\ response'.compliance_reports = job.compliance_reports
                 /\ job.chunks # <<>>
                 /\ job.chunks = paragraph_chunk_split(job.original_text, ChunkSize)
                 /\ ReportsOf(job.compliance_reports, job.chunks)
                 /\ job.state # NoState
                 /\ job.state.chunks = job.chunks
                 /\ job.state.compliance_reports = job.compliance_reports]_vars

C15_Witness ==
    /\ response.op = "get_status"
    /\ response.status = "compliance_complete"
    /\ Len(response.compliance_reports) = 3
    /\ tasks # EmptyBag

\* C16: a running stage has one result per chunk sent so far, result i being
\* that of chunk i, with the call for the next chunk outstanding; when the
\* loop is over the state holds one result per chunk in chunk order.
C16_SequentialInOrder ==
    \A task \in BagToSet(tasks) :
        /\ task.pc \in {"check", "correct"}
              => /\ Len(task.acc) < Len(task.state.chunks)
                 /\ \A i \in 1..Len(task.acc) :
                       IF task.pc = "check"
                       THEN task.acc[i] \in CheckResponses(task.state.chunks[i])
                       ELSE task.acc[i] \in
                              {Strip(c) : c \in CorrectResponses(task.state.chunks[i])}
        /\ (task.fn = "process_compliance_check" /\ task.pc = "store")
              => ReportsOf(task.state.compliance_reports, task.state.chunks)
        /\ (task.fn = "process_document_correction" /\ task.pc \in {"save", "store"})
              => /\ Len(task.state.corrected_chunks) = Len(task.state.chunks)
                 /\ \A i \in 1..Len(task.state.chunks) :
                       task.state.corrected_chunks[i] \in
                           {Strip(c) : c \in CorrectResponses(task.state.chunks[i])}

C16_Witness ==
    \E task \in BagToSet(tasks) :
        /\ task.pc = "correct"
        /\ Len(task.acc) = 2
        /\ Len(task.state.chunks) = 3

\* C17: no step of a Correct run changes the job's chunks, reports, original
\* text, file path or file name, and the run works on the chunks stored in
\* the job.
C17_CorrectLeavesCheckData ==
    [][\A task \in BagToSet(tasks) :
          (StepOf(task) /\ task.fn = "process_document_correction")
          => LET old == file_storage[task.file_id]
                 job == file_storage'[task.file_id]
             IN  /\ job.chunks = old.chunks
                 /\ job.compliance_reports = old.compliance_reports
                 /\ job.original_text = old.original_text
                 /\ job.file_path = old.file_path
                 /\ job.original_filename = old.original_filename
                 /\ task.pc # "scheduled" => task.state.chunks = old.chunks]_vars

C17_Witness ==
    \E id \in Jobs :
        /\ file_storage[id].status = "error"
        /\ file_storage[id].error = <<SaveError.msg>>
        /\ Len(file_storage[id].chunks) = 3
        /\ Len(file_storage[id].compliance_reports) = 3

\* C18: a job carries an error message only while its status is Error.
C18_ErrorOnlyInErrorStatus ==
    \A id \in Jobs :
        file_storage[id].error # None => file_storage[id].status = "error"

\* C19: a job in CorrectionComplete has the output path of its source file,
\* the file at that path has been written, and the final document is the
\* corrected chunks joined with the paragraph delimiter.
C19_OutputOfCompletedCorrection ==
    \A id \in Jobs :
        LET job == file_storage[id]
        IN  job.status = "correction_complete"
            => /\ job.output_path = OutputPath(job.file_path)
               /\ job.output_path \in output_files
               /\ job.corrected_chunks # <<>>
               /\ job.final_corrected_doc = Join(job.corrected_chunks, SEP)

C19_Witness ==
    \E id \in Jobs :
        /\ file_storage[id].status = "correction_complete"
        /\ file_storage[id].output_path = "output/corrected_uuid-1_a.docx"
        /\ Len(file_storage[id].final_corrected_doc) > ChunkSize

\* C20: no chunk the chunker returns is the empty string.
C20_NoEmptyChunk ==
    split_call.done
    => \A i \in 1..Len(split_call.result) : split_call.result[i] # ""

====
